---- MODULE Spec2Model ----
(***************************************************************************)
(* graphgen: parallel chunked generation of a node/edge table and the      *)
(* offset-based merge of the per-chunk files (src/src/main.rs).            *)
(*                                                                         *)
(* Files are sequences of bytes; a byte is a one-character string, and     *)
(* NUL is the zero byte a file extension (set_len) fills with.  File       *)
(* offsets are 0-based as in the code; byte at offset o is data[o + 1].    *)
(***************************************************************************)
EXTENDS Integers, Sequences, FiniteSets

(* ------------------------------ bounds -------------------------------- *)
MaxN == 2
MaxP == 2
MaxEdges == 1
MaxPropBytes == 1
BufCap == 3
MaxFaults == 1

(* -------------------------- program constants -------------------------- *)
EdgeScale == 10000
PropDivisor == 3

(* A sampled fraction f is the rational k / FracDen. *)
FracDen == 2 * EdgeScale

VARIABLES args, pc, mainI, nodesCsv, edgesCsv, chunkNodes, chunkEdges,
          chunkStats, gen, mrg, nodeoffsets, edgeoffsets, writes, sample

vars == <<args, pc, mainI, nodesCsv, edgesCsv, chunkNodes, chunkEdges,
          chunkStats, gen, mrg, nodeoffsets, edgeoffsets, writes, sample>>

(* ------------------------------ bytes ---------------------------------- *)
NL == "\n"
CR == "\r"
NUL == "NUL"

NodeHeader == <<"N", "o", "d", "e", "I", "D", "|", "d", "a", "t", "a", NL>>
EdgeHeader == <<"S", "r", "c", "I", "D", "|", "D", "s", "t", "I", "D", NL>>

Digits == <<"0", "1", "2", "3", "4", "5", "6", "7", "8", "9">>
HexDigits == <<"0", "1", "2", "3", "4", "5", "6", "7", "8", "9",
               "A", "B", "C", "D", "E", "F">>

RECURSIVE to_string(_)
to_string(v) ==
  IF v < 10 THEN <<Digits[v + 1]>>
  ELSE to_string(v \div 10) \o <<Digits[(v % 10) + 1]>>

Min(a, b) == IF a < b THEN a ELSE b

NoFile == [exists |-> FALSE, data |-> <<>>]
NewFile(bytes) == [exists |-> TRUE, data |-> bytes]

(* ---------------------------- the sampler ------------------------------ *)
Dists == {"None", "Uniform", "Normal", "Exp"}

(* Raw draws of the random source, as numerators over FracDen: a few tiny  *)
(* values, the middle and the top of each distribution's support.          *)
RawDraws(dist) ==
  CASE dist = "None" -> {0}
    [] dist = "Uniform" -> (0 .. (2 * MaxEdges + 1)) \cup {FracDen \div 2, FracDen - 1}
    [] dist = "Normal" -> {0 - 1, 0, 2 * MaxEdges, FracDen \div 2, FracDen, FracDen + 1}
    [] dist = "Exp" -> {0, 1, FracDen \div 2, FracDen, 2 * FracDen}

(* lines 81-95 / 107-119: the fraction before its use *)
Fraction(dist, k) ==
  CASE dist = "None" -> 0
    [] dist = "Uniform" -> k
    [] dist = "Normal" -> IF k > FracDen THEN FracDen ELSE IF k < 0 THEN 0 ELSE k
    [] dist = "Exp" -> k

(* Mutant: the count is rounded up instead of truncated. *)
GetNEdgesPlusOne(dist, k) ==
  LET f == Fraction(dist, k) IN
  IF dist = "Exp"
  THEN ((f * f * EdgeScale) \div (FracDen * FracDen)) + 1
  ELSE ((f * EdgeScale) \div FracDen) + 1

(* get_n_edges: (f * 10000.) as usize, with f = e * e for Exp *)
GetNEdges(dist, k) ==
  LET f == Fraction(dist, k) IN
  IF dist = "Exp"
  THEN (f * f * EdgeScale) \div (FracDen * FracDen)
  ELSE (f * EdgeScale) \div FracDen

(* Mutant: the fraction is scaled by the closed range [min, max]. *)
PropLengthInclusive(dist, k, min_prop_size, prop_range) ==
  min_prop_size + ((Fraction(dist, k) * (prop_range + 1)) \div FracDen)

(* get_prop, line 96: min_prop_size + ((f * prop_range as f64) as usize) *)
PropLength(dist, k, min_prop_size, prop_range) ==
  min_prop_size + ((Fraction(dist, k) * prop_range) \div FracDen)

(* get_prop: the number of raw bytes read from the random byte source *)
PropBytes(dist, k, min_prop_size, prop_range) ==
  PropLength(dist, k, min_prop_size, prop_range) \div PropDivisor

(* urlencoding::encode_binary on the byte values the model draws *)
RawBytes == {10, 65}
Unreserved == {65}
Chr(b) == IF b = 65 THEN "A" ELSE "?"
EncodeByte(b) ==
  IF b \in Unreserved THEN <<Chr(b)>>
  ELSE <<"%", HexDigits[(b \div 16) + 1], HexDigits[(b % 16) + 1]>>

RECURSIVE EncodeBinary(_)
EncodeBinary(buf) ==
  IF buf = <<>> THEN <<>>
  ELSE EncodeByte(Head(buf)) \o EncodeBinary(Tail(buf))

RawBufs(len) == UNION {[1 .. l -> RawBytes] : l \in {len}}

(* The encoded properties get_prop can return for a distribution. *)
GetPropResults(dist, min_prop_size, prop_range) ==
  {EncodeBinary(b) :
     b \in UNION {RawBufs(PropBytes(dist, k, min_prop_size, prop_range)) :
                    k \in {d \in RawDraws(dist) :
                             PropBytes(dist, d, min_prop_size, prop_range)
                               <= MaxPropBytes}}}

(* ------------------------------ BufWriter ------------------------------ *)
(* std::io::BufWriter::write_all: the new buffer and the bytes that reach  *)
(* the inner file in this call.                                            *)
BufWriteAll(buf, bytes) ==
  IF Len(bytes) < BufCap - Len(buf)
  THEN [buf |-> buf \o bytes, out |-> <<>>]
  ELSE LET flushed == IF Len(bytes) > BufCap - Len(buf) THEN buf ELSE <<>>
           kept == IF Len(bytes) > BufCap - Len(buf) THEN <<>> ELSE buf
       IN IF Len(bytes) >= BufCap
          THEN [buf |-> kept, out |-> flushed \o bytes]
          ELSE [buf |-> kept \o bytes, out |-> flushed]

(* write(2) at a file offset: overwrite, zero-fill a gap, extend. *)
WriteAt(data, pos, bytes) ==
  LET newlen == IF pos + Len(bytes) > Len(data) THEN pos + Len(bytes) ELSE Len(data)
  IN [j \in 1 .. newlen |->
        IF j > pos /\ j <= pos + Len(bytes) THEN bytes[j - pos]
        ELSE IF j <= Len(data) THEN data[j] ELSE NUL]

(* File::set_len: truncate or zero-extend *)
SetLen(data, len) ==
  [j \in 1 .. len |-> IF j <= Len(data) THEN data[j] ELSE NUL]

(* BufRead::lines: the next row from offset pos and the offset after it.  *)
(* The terminating "\n" is stripped, and a "\r" before it.                 *)
NextNL(data, pos) ==
  LET nls == {j \in (pos + 1) .. Len(data) : data[j] = NL}
  IN IF nls = {} THEN 0 ELSE CHOOSE j \in nls : \A m \in nls : j <= m

ReadLine(data, pos) ==
  LET nl == NextNL(data, pos) IN
  IF nl = 0
  THEN [line |-> SubSeq(data, pos + 1, Len(data)), next |-> Len(data)]
  ELSE LET last == IF nl - 1 > pos /\ data[nl - 1] = CR THEN nl - 2 ELSE nl - 1
       IN [line |-> SubSeq(data, pos + 1, last), next |-> nl]

(* --------------------------- initial state ----------------------------- *)
Procs == 0 .. (args.nprocs - 1)

(* Distribution and property-size settings of a run. *)
Profiles ==
  { [edge_dist |-> "None", node_prop_dist |-> "None", edge_prop_dist |-> "None",
     min_prop_size |-> 0, max_prop_size |-> 0],
    [edge_dist |-> "Uniform", node_prop_dist |-> "None", edge_prop_dist |-> "None",
     min_prop_size |-> 0, max_prop_size |-> 0],
    [edge_dist |-> "None", node_prop_dist |-> "Uniform", edge_prop_dist |-> "None",
     min_prop_size |-> 0, max_prop_size |-> 6] }

(* A setting with edge properties, run in incremental mode only. *)
ChunkProfiles ==
  { [edge_dist |-> "Normal", node_prop_dist |-> "None", edge_prop_dist |-> "Exp",
     min_prop_size |-> 0, max_prop_size |-> 0] }

MakeArgs(n, p, g, f) ==
  [n_nodes |-> n, nprocs |-> p, generatechunks |-> g,
   edge_dist |-> f.edge_dist, node_prop_dist |-> f.node_prop_dist,
   edge_prop_dist |-> f.edge_prop_dist,
   min_prop_size |-> f.min_prop_size, max_prop_size |-> f.max_prop_size]

ArgsSet ==
  { MakeArgs(n, p, g, f) :
      n \in 0 .. MaxN, p \in 1 .. MaxP, g \in BOOLEAN, f \in Profiles }
  \cup { MakeArgs(n, p, TRUE, f) :
           n \in 0 .. MaxN, p \in 1 .. MaxP, f \in ChunkProfiles }

GenIdle ==
  [pc |-> "unspawned", start |-> 0, end |-> 0, nid |-> 0, n_edges |-> 0,
   nodebuf |-> <<>>, edgebuf |-> <<>>, statsbuf |-> <<>>]

MrgIdle ==
  [pc |-> "unspawned", nstart |-> 0, estart |-> 0, npos |-> 0, epos |-> 0,
   nread |-> 0, eread |-> 0, nodebuf |-> <<>>, edgebuf |-> <<>>,
   read_errors |-> 0]

(* No sampler call is under study in a whole run. *)
NoSample == [k |-> 0, at |-> "none", n_edges |-> 0, prop_length |-> 0,
             prop_bytes |-> 0]

InitFrom(argsSet) ==
  /\ args \in argsSet
  /\ sample = NoSample
  /\ pc = "create_files"
  /\ mainI = 0
  /\ nodesCsv = NoFile
  /\ edgesCsv = NoFile
  /\ chunkNodes = [i \in Procs |-> NoFile]
  /\ chunkEdges = [i \in Procs |-> NoFile]
  /\ chunkStats = [i \in Procs |-> NoFile]
  /\ gen = [i \in Procs |-> GenIdle]
  /\ mrg = [i \in Procs |-> MrgIdle]
  /\ nodeoffsets = <<>>
  /\ edgeoffsets = <<>>
  /\ writes = {}

Init == InitFrom(ArgsSet)

(* ------------------------- generate (main thread) ---------------------- *)
(* lines 347-356 *)
CreateFiles ==
  /\ pc = "create_files"
  /\ nodesCsv' = NewFile(NodeHeader)
  /\ edgesCsv' = NewFile(EdgeHeader)
  /\ pc' = "spawn_gen"
  /\ mainI' = 0
  /\ UNCHANGED <<args, sample, chunkNodes, chunkEdges, chunkStats, gen, mrg,
                 nodeoffsets, edgeoffsets, writes>>

(* lines 359-364: one iteration of the spawn loop *)
SpawnGen ==
  /\ pc = "spawn_gen"
  /\ mainI < args.nprocs
  /\ gen' = [gen EXCEPT ![mainI].pc = "start"]
  /\ mainI' = mainI + 1
  /\ UNCHANGED <<args, sample, pc, nodesCsv, edgesCsv, chunkNodes, chunkEdges,
                 chunkStats, mrg, nodeoffsets, edgeoffsets, writes>>

SpawnGenDone ==
  /\ pc = "spawn_gen"
  /\ mainI >= args.nprocs
  /\ pc' = "join_gen"
  /\ mainI' = 0
  /\ UNCHANGED <<args, sample, nodesCsv, edgesCsv, chunkNodes, chunkEdges, chunkStats,
                 gen, mrg, nodeoffsets, edgeoffsets, writes>>

(* Mutant: the join loop does not wait for the thread. *)
JoinGenNoWait ==
  /\ pc = "join_gen"
  /\ mainI < args.nprocs
  /\ mainI' = mainI + 1
  /\ UNCHANGED <<args, sample, pc, nodesCsv, edgesCsv, chunkNodes, chunkEdges,
                 chunkStats, gen, mrg, nodeoffsets, edgeoffsets, writes>>

(* Mutant: the join loop does not move on to the next handle. *)
JoinGenNoAdvance ==
  /\ pc = "join_gen"
  /\ mainI < args.nprocs
  /\ gen[mainI].pc = "finished"
  /\ gen' = [gen EXCEPT ![mainI].pc = "joined"]
  /\ UNCHANGED <<args, sample, pc, mainI, nodesCsv, edgesCsv, chunkNodes,
                 chunkEdges, chunkStats, mrg, nodeoffsets, edgeoffsets, writes>>

(* lines 366-368: child.join() returns once the thread has finished *)
JoinGen ==
  /\ pc = "join_gen"
  /\ mainI < args.nprocs
  /\ gen[mainI].pc = "finished"
  /\ gen' = [gen EXCEPT ![mainI].pc = "joined"]
  /\ mainI' = mainI + 1
  /\ UNCHANGED <<args, sample, pc, nodesCsv, edgesCsv, chunkNodes, chunkEdges,
                 chunkStats, mrg, nodeoffsets, edgeoffsets, writes>>

(* Mutant: the incremental-mode return is missing. *)
JoinGenDoneAlwaysMerge ==
  /\ pc = "join_gen"
  /\ mainI >= args.nprocs
  /\ pc' = "plan_open"
  /\ mainI' = 0
  /\ UNCHANGED <<args, sample, nodesCsv, edgesCsv, chunkNodes, chunkEdges, chunkStats,
                 gen, mrg, nodeoffsets, edgeoffsets, writes>>

(* lines 372-375: return in incremental mode, else enter combine_chunks *)
JoinGenDone ==
  /\ pc = "join_gen"
  /\ mainI >= args.nprocs
  /\ pc' = IF args.generatechunks THEN "done_early" ELSE "plan_open"
  /\ mainI' = 0
  /\ UNCHANGED <<args, sample, nodesCsv, edgesCsv, chunkNodes, chunkEdges, chunkStats,
                 gen, mrg, nodeoffsets, edgeoffsets, writes>>

(* --------------------------- generate_chunk ---------------------------- *)
(* lines 143-145 *)
ChunkSize(n_nodes, nprocs) == n_nodes \div nprocs
(* Mutant: the chunk index is taken 1-based. *)
ChunkStartOneBased(n_nodes, nprocs, id) == ChunkSize(n_nodes, nprocs) * (id + 1)
ChunkStart(n_nodes, nprocs, id) == ChunkSize(n_nodes, nprocs) * id
ChunkEnd(n_nodes, nprocs, id) ==
  Min(ChunkStart(n_nodes, nprocs, id) + ChunkSize(n_nodes, nprocs), n_nodes)

(* line 140 *)
PropRange == args.max_prop_size - args.min_prop_size

(* lines 149-150 *)
HasNodeProps == args.node_prop_dist # "None"
HasEdgeProps == args.edge_prop_dist # "None"

(* lines 179-188 / 218-227: the "|<encoded>" suffixes a row can get *)
PropSuffixes(has_props, dist) ==
  IF has_props
  THEN {<<"|">> \o e : e \in GetPropResults(dist, args.min_prop_size, PropRange)}
  ELSE {<<>>}

(* lines 176-189 *)
NodeLine(nid, suffix) == to_string(nid) \o suffix \o <<NL>>
(* Mutant: the recorded out-degree is one more than the sampled count. *)
StatsLineOffByOne(nid, n_edges) ==
  to_string(nid) \o <<" ">> \o to_string(n_edges + 1) \o <<NL>>

(* lines 196-199 *)
StatsLine(nid, n_edges) == to_string(nid) \o <<" ">> \o to_string(n_edges) \o <<NL>>
(* lines 205-228 *)
EdgeLine(nid, dst, suffix) ==
  to_string(nid) \o <<"|">> \o to_string(dst) \o suffix \o <<NL>>

(* Mutant: the incremental-mode restriction of the destination is missing. *)
MaxNidAlwaysN(end) == args.n_nodes

(* lines 211-215 *)
MaxNid(end) == IF args.generatechunks THEN end ELSE args.n_nodes

(* line 216: gen_range(0..maxnid) draws any id below maxnid; the model     *)
(* draws the two ends of that range.                                       *)
DstDraws(maxnid) == {d \in {0, maxnid - 1} : 0 <= d /\ d < maxnid}

FileAppend(file, bytes) == [file EXCEPT !.data = @ \o bytes]

(* lines 366-368: when the main thread panics the process exits and no   *)
(* thread takes another step                                              *)
Exited == pc = "aborted"

(* lines 130-147: create the three chunk files, compute the id range *)
GenStart(i) ==
  /\ ~Exited
  /\ gen[i].pc = "start"
  /\ chunkNodes' = [chunkNodes EXCEPT ![i] = NewFile(<<>>)]
  /\ chunkEdges' = [chunkEdges EXCEPT ![i] = NewFile(<<>>)]
  /\ chunkStats' = [chunkStats EXCEPT ![i] = NewFile(<<>>)]
  /\ gen' = [gen EXCEPT ![i].pc = "loop",
                        ![i].start = ChunkStart(args.n_nodes, args.nprocs, i),
                        ![i].end = ChunkEnd(args.n_nodes, args.nprocs, i),
                        ![i].nid = ChunkStart(args.n_nodes, args.nprocs, i)]
  /\ UNCHANGED <<args, sample, pc, mainI, nodesCsv, edgesCsv, mrg, nodeoffsets,
                 edgeoffsets, writes>>

(* lines 175-207: the node row and the stats row of one id; with no edge   *)
(* to draw the edge loop is empty and the next id follows (line 234)       *)
GenNode(i) ==
  /\ ~Exited
  /\ gen[i].pc = "loop"
  /\ gen[i].nid < gen[i].end
  /\ \E suffix \in PropSuffixes(HasNodeProps, args.node_prop_dist),
        k \in RawDraws(args.edge_dist) :
       LET n_edges == GetNEdges(args.edge_dist, k)
           nw == BufWriteAll(gen[i].nodebuf, NodeLine(gen[i].nid, suffix))
           sw == BufWriteAll(gen[i].statsbuf, StatsLine(gen[i].nid, n_edges))
       IN /\ n_edges <= MaxEdges
          /\ chunkNodes' = [chunkNodes EXCEPT ![i] = FileAppend(@, nw.out)]
          /\ chunkStats' = [chunkStats EXCEPT ![i] = FileAppend(@, sw.out)]
          /\ gen' = [gen EXCEPT ![i].pc = IF n_edges > 0 THEN "edges" ELSE "loop",
                                ![i].nid = IF n_edges > 0 THEN @ ELSE @ + 1,
                                ![i].n_edges = n_edges,
                                ![i].nodebuf = nw.buf,
                                ![i].statsbuf = sw.buf]
  /\ UNCHANGED <<args, sample, pc, mainI, nodesCsv, edgesCsv, chunkEdges, mrg,
                 nodeoffsets, edgeoffsets, writes>>

(* lines 208-234: one iteration of the edge loop; after the last one the   *)
(* next id follows                                                         *)
GenEdge(i) ==
  /\ ~Exited
  /\ gen[i].pc = "edges"
  /\ gen[i].n_edges > 0
  /\ \E dst \in DstDraws(MaxNid(gen[i].end)),
        suffix \in PropSuffixes(HasEdgeProps, args.edge_prop_dist) :
       LET ew == BufWriteAll(gen[i].edgebuf, EdgeLine(gen[i].nid, dst, suffix))
       IN /\ chunkEdges' = [chunkEdges EXCEPT ![i] = FileAppend(@, ew.out)]
          /\ gen' = [gen EXCEPT ![i].pc = IF gen[i].n_edges > 1 THEN "edges" ELSE "loop",
                                ![i].nid = IF gen[i].n_edges > 1 THEN @ ELSE @ + 1,
                                ![i].n_edges = @ - 1,
                                ![i].edgebuf = ew.buf]
  /\ UNCHANGED <<args, sample, pc, mainI, nodesCsv, edgesCsv, chunkNodes, chunkStats,
                 mrg, nodeoffsets, edgeoffsets, writes>>

(* line 236: the BufWriters are dropped, which flushes them *)
GenExit(i) ==
  /\ ~Exited
  /\ gen[i].pc = "loop"
  /\ gen[i].nid >= gen[i].end
  /\ chunkNodes' = [chunkNodes EXCEPT ![i] = FileAppend(@, gen[i].nodebuf)]
  /\ chunkEdges' = [chunkEdges EXCEPT ![i] = FileAppend(@, gen[i].edgebuf)]
  /\ chunkStats' = [chunkStats EXCEPT ![i] = FileAppend(@, gen[i].statsbuf)]
  /\ gen' = [gen EXCEPT ![i].pc = "finished", ![i].nodebuf = <<>>,
                        ![i].edgebuf = <<>>, ![i].statsbuf = <<>>]
  /\ UNCHANGED <<args, sample, pc, mainI, nodesCsv, edgesCsv, mrg, nodeoffsets,
                 edgeoffsets, writes>>

(* --------------------------- combine_chunks ---------------------------- *)
(* lines 239-255: open the destinations, seed the offset tables *)
PlanOpen ==
  /\ pc = "plan_open"
  /\ nodesCsv.exists /\ edgesCsv.exists
  /\ nodeoffsets' = <<Len(nodesCsv.data)>>
  /\ edgeoffsets' = <<Len(edgesCsv.data)>>
  /\ pc' = "plan_stat"
  /\ mainI' = 0
  /\ UNCHANGED <<args, sample, nodesCsv, edgesCsv, chunkNodes, chunkEdges, chunkStats,
                 gen, mrg, writes>>

(* Mutant: every offset is taken from the header length, not the last sum. *)
NextOffsetFromHeader(offsets, i, len) == offsets[1] + len

(* lines 258, 262: the offset pushed for chunk i of byte length len *)
NextOffset(offsets, i, len) == offsets[i + 1] + len

(* lines 256-264: one iteration of the prefix-sum loop *)
PlanStat ==
  /\ pc = "plan_stat"
  /\ mainI < args.nprocs
  /\ chunkNodes[mainI].exists /\ chunkEdges[mainI].exists
  /\ nodeoffsets' = Append(nodeoffsets,
                           NextOffset(nodeoffsets, mainI, Len(chunkNodes[mainI].data)))
  /\ edgeoffsets' = Append(edgeoffsets,
                           NextOffset(edgeoffsets, mainI, Len(chunkEdges[mainI].data)))
  /\ mainI' = mainI + 1
  /\ UNCHANGED <<args, sample, pc, nodesCsv, edgesCsv, chunkNodes, chunkEdges,
                 chunkStats, gen, mrg, writes>>

(* Mutant: the destinations are not pre-sized. *)
PlanResizeSkipped ==
  /\ pc = "plan_stat"
  /\ mainI >= args.nprocs
  /\ pc' = "spawn_merge"
  /\ mainI' = 0
  /\ UNCHANGED <<args, sample, nodesCsv, edgesCsv, chunkNodes, chunkEdges, chunkStats,
                 gen, mrg, nodeoffsets, edgeoffsets, writes>>

(* lines 266-273: pre-size both destinations to the last offset *)
PlanResize ==
  /\ pc = "plan_stat"
  /\ mainI >= args.nprocs
  /\ nodesCsv' = [nodesCsv EXCEPT
                    !.data = SetLen(@, nodeoffsets[Len(nodeoffsets)])]
  /\ edgesCsv' = [edgesCsv EXCEPT
                    !.data = SetLen(@, edgeoffsets[Len(edgeoffsets)])]
  /\ pc' = "spawn_merge"
  /\ mainI' = 0
  /\ UNCHANGED <<args, sample, chunkNodes, chunkEdges, chunkStats, gen, mrg,
                 nodeoffsets, edgeoffsets, writes>>

(* Mutant: every merger starts right after the header. *)
MergeStartAtHeader(offsets, i) == offsets[1]

(* lines 278-283: the start offsets a merger thread is given *)
MergeStart(offsets, i) == offsets[i + 1]

(* lines 278-337: one iteration of the spawn loop *)
SpawnMerge ==
  /\ pc = "spawn_merge"
  /\ mainI < args.nprocs
  /\ mrg' = [mrg EXCEPT ![mainI].pc = "open",
                        ![mainI].nstart = MergeStart(nodeoffsets, mainI),
                        ![mainI].estart = MergeStart(edgeoffsets, mainI)]
  /\ mainI' = mainI + 1
  /\ UNCHANGED <<args, sample, pc, nodesCsv, edgesCsv, chunkNodes, chunkEdges,
                 chunkStats, gen, nodeoffsets, edgeoffsets, writes>>

SpawnMergeDone ==
  /\ pc = "spawn_merge"
  /\ mainI >= args.nprocs
  /\ pc' = "join_merge"
  /\ mainI' = 0
  /\ UNCHANGED <<args, sample, nodesCsv, edgesCsv, chunkNodes, chunkEdges, chunkStats,
                 gen, mrg, nodeoffsets, edgeoffsets, writes>>

(* lines 338-340 *)
JoinMerge ==
  /\ pc = "join_merge"
  /\ mainI < args.nprocs
  /\ mrg[mainI].pc = "finished"
  /\ mrg' = [mrg EXCEPT ![mainI].pc = "joined"]
  /\ mainI' = mainI + 1
  /\ UNCHANGED <<args, sample, pc, nodesCsv, edgesCsv, chunkNodes, chunkEdges,
                 chunkStats, gen, nodeoffsets, edgeoffsets, writes>>

(* lines 341, 376: combine_chunks and generate return *)
JoinMergeDone ==
  /\ pc = "join_merge"
  /\ mainI >= args.nprocs
  /\ pc' = "done"
  /\ mainI' = 0
  /\ UNCHANGED <<args, sample, nodesCsv, edgesCsv, chunkNodes, chunkEdges, chunkStats,
                 gen, mrg, nodeoffsets, edgeoffsets, writes>>

(* ------------------------- the merger threads -------------------------- *)
(* The destination offsets a write of bytes at pos touches, by merger i.   *)
WritesOf(file, i, pos, bytes) ==
  {[file |-> file, by |-> i, pos |-> o] : o \in pos .. (pos + Len(bytes) - 1)}

(* Mutant: the row terminator is not written back. *)
WriteRowNoNewline(buf, line) == BufWriteAll(buf, line)

(* lines 314-320: write_all(line) then write_all("\n") on the BufWriter *)
WriteRow(buf, line) ==
  LET w1 == BufWriteAll(buf, line)
      w2 == BufWriteAll(w1.buf, <<NL>>)
  IN [buf |-> w2.buf, out |-> w1.out \o w2.out]

(* lines 284-311: open and seek the destinations, open the chunk files *)
MergerOpen(i) ==
  /\ mrg[i].pc = "open"
  /\ nodesCsv.exists /\ edgesCsv.exists
  /\ chunkNodes[i].exists /\ chunkEdges[i].exists
  /\ mrg' = [mrg EXCEPT ![i].pc = "nodes",
                        ![i].npos = mrg[i].nstart,
                        ![i].epos = mrg[i].estart]
  /\ UNCHANGED <<args, sample, pc, mainI, nodesCsv, edgesCsv, chunkNodes, chunkEdges,
                 chunkStats, gen, nodeoffsets, edgeoffsets, writes>>

(* lines 313-322: copy one row of the node chunk *)
MergerNodeLine(i) ==
  /\ mrg[i].pc = "nodes"
  /\ mrg[i].nread < Len(chunkNodes[i].data)
  /\ LET r == ReadLine(chunkNodes[i].data, mrg[i].nread)
         w == WriteRow(mrg[i].nodebuf, r.line)
     IN /\ nodesCsv' = [nodesCsv EXCEPT !.data = WriteAt(@, mrg[i].npos, w.out)]
        /\ writes' = writes \cup WritesOf("nodes", i, mrg[i].npos, w.out)
        /\ mrg' = [mrg EXCEPT ![i].nread = r.next,
                              ![i].nodebuf = w.buf,
                              ![i].npos = @ + Len(w.out)]
  /\ UNCHANGED <<args, sample, pc, mainI, edgesCsv, chunkNodes, chunkEdges, chunkStats,
                 gen, nodeoffsets, edgeoffsets>>

(* Mutant: every merger unlinks the node chunk of worker 0. *)
MergerRemoveFirstNodes(i) ==
  /\ mrg[i].pc = "nodes"
  /\ mrg[i].nread >= Len(chunkNodes[i].data)
  /\ chunkNodes[i].exists
  /\ chunkNodes' = [chunkNodes EXCEPT ![0].exists = FALSE]
  /\ mrg' = [mrg EXCEPT ![i].pc = "edges"]
  /\ UNCHANGED <<args, sample, pc, mainI, nodesCsv, edgesCsv, chunkEdges, chunkStats,
                 gen, nodeoffsets, edgeoffsets, writes>>

(* line 323: the node chunk is at its end, unlink it *)
MergerRemoveNodes(i) ==
  /\ mrg[i].pc = "nodes"
  /\ mrg[i].nread >= Len(chunkNodes[i].data)
  /\ chunkNodes[i].exists
  /\ chunkNodes' = [chunkNodes EXCEPT ![i].exists = FALSE]
  /\ mrg' = [mrg EXCEPT ![i].pc = "edges"]
  /\ UNCHANGED <<args, sample, pc, mainI, nodesCsv, edgesCsv, chunkEdges, chunkStats,
                 gen, nodeoffsets, edgeoffsets, writes>>

(* lines 325-334: copy one row of the edge chunk *)
MergerEdgeLine(i) ==
  /\ mrg[i].pc = "edges"
  /\ mrg[i].eread < Len(chunkEdges[i].data)
  /\ LET r == ReadLine(chunkEdges[i].data, mrg[i].eread)
         w == WriteRow(mrg[i].edgebuf, r.line)
     IN /\ edgesCsv' = [edgesCsv EXCEPT !.data = WriteAt(@, mrg[i].epos, w.out)]
        /\ writes' = writes \cup WritesOf("edges", i, mrg[i].epos, w.out)
        /\ mrg' = [mrg EXCEPT ![i].eread = r.next,
                              ![i].edgebuf = w.buf,
                              ![i].epos = @ + Len(w.out)]
  /\ UNCHANGED <<args, sample, pc, mainI, nodesCsv, chunkNodes, chunkEdges, chunkStats,
                 gen, nodeoffsets, edgeoffsets>>

(* Mutant: the merger unlinks the stats file of its chunk as well. *)
MergerRemoveEdgesAndStats(i) ==
  /\ mrg[i].pc = "edges"
  /\ mrg[i].eread >= Len(chunkEdges[i].data)
  /\ chunkEdges[i].exists
  /\ chunkEdges' = [chunkEdges EXCEPT ![i].exists = FALSE]
  /\ chunkStats' = [chunkStats EXCEPT ![i].exists = FALSE]
  /\ mrg' = [mrg EXCEPT ![i].pc = "exit"]
  /\ UNCHANGED <<args, sample, pc, mainI, nodesCsv, edgesCsv, chunkNodes,
                 gen, nodeoffsets, edgeoffsets, writes>>

(* line 335: the edge chunk is at its end, unlink it *)
MergerRemoveEdges(i) ==
  /\ mrg[i].pc = "edges"
  /\ mrg[i].eread >= Len(chunkEdges[i].data)
  /\ chunkEdges[i].exists
  /\ chunkEdges' = [chunkEdges EXCEPT ![i].exists = FALSE]
  /\ mrg' = [mrg EXCEPT ![i].pc = "exit"]
  /\ UNCHANGED <<args, sample, pc, mainI, nodesCsv, edgesCsv, chunkNodes, chunkStats,
                 gen, nodeoffsets, edgeoffsets, writes>>

(* line 336: the closure ends; its two BufWriters are dropped and flushed *)
MergerExit(i) ==
  /\ mrg[i].pc = "exit"
  /\ edgesCsv' = [edgesCsv EXCEPT !.data = WriteAt(@, mrg[i].epos, mrg[i].edgebuf)]
  /\ nodesCsv' = [nodesCsv EXCEPT !.data = WriteAt(@, mrg[i].npos, mrg[i].nodebuf)]
  /\ writes' = writes \cup WritesOf("edges", i, mrg[i].epos, mrg[i].edgebuf)
                      \cup WritesOf("nodes", i, mrg[i].npos, mrg[i].nodebuf)
  /\ mrg' = [mrg EXCEPT ![i].pc = "finished",
                        ![i].npos = @ + Len(mrg[i].nodebuf),
                        ![i].epos = @ + Len(mrg[i].edgebuf),
                        ![i].nodebuf = <<>>,
                        ![i].edgebuf = <<>>]
  /\ UNCHANGED <<args, sample, pc, mainI, chunkNodes, chunkEdges, chunkStats, gen,
                 nodeoffsets, edgeoffsets>>

(* ---------------------------- specification ---------------------------- *)
Next ==
  \/ CreateFiles
  \/ SpawnGen
  \/ SpawnGenDone
  \/ JoinGen
  \/ JoinGenDone
  \/ PlanOpen
  \/ PlanStat
  \/ PlanResize
  \/ SpawnMerge
  \/ SpawnMergeDone
  \/ JoinMerge
  \/ JoinMergeDone
  \/ \E i \in Procs : GenStart(i)
  \/ \E i \in Procs : GenNode(i)
  \/ \E i \in Procs : GenEdge(i)
  \/ \E i \in Procs : GenExit(i)
  \/ \E i \in Procs : MergerOpen(i)
  \/ \E i \in Procs : MergerNodeLine(i)
  \/ \E i \in Procs : MergerRemoveNodes(i)
  \/ \E i \in Procs : MergerEdgeLine(i)
  \/ \E i \in Procs : MergerRemoveEdges(i)
  \/ \E i \in Procs : MergerExit(i)

Spec == Init /\ [][Next]_vars

(* Runs of any worker count, nprocs = 0 included (clap accepts it), in   *)
(* which the process and its threads keep being scheduled; runs with      *)
(* edges are one node and one worker smaller than runs without.           *)
LiveArgs ==
  { MakeArgs(n, p, g, f) :
      n \in 0 .. MaxN, p \in 0 .. MaxP, g \in BOOLEAN,
      f \in {q \in Profiles : q.edge_dist = "None" /\ q.node_prop_dist = "None"} }
  \cup { MakeArgs(n, p, g, f) :
           n \in 0 .. (MaxN - 1), p \in 0 .. (MaxP - 1), g \in BOOLEAN,
           f \in {q \in Profiles : q.edge_dist = "Uniform"} }

LiveInit == InitFrom(LiveArgs)

LiveSpec == LiveInit /\ [][Next]_vars /\ WF_vars(Next)

(* Normal-mode runs with edges whose node count is one past MaxN, so that *)
(* n_nodes need not be a multiple of nprocs while there are edges.        *)
WideArgs ==
  { MakeArgs(MaxN + 1, p, FALSE, f) :
      p \in 1 .. MaxP, f \in {q \in Profiles : q.edge_dist = "Uniform"} }

WideInit == InitFrom(WideArgs)

WideSpec == WideInit /\ [][Next]_vars

(* ------------------- runs with a failing generator -------------------- *)
(* lines 131-137, 190-192, 200-202, 229-231: an expect() on a failed       *)
(* File::create or write_all panics the generator thread.  A create can    *)
(* fail after earlier ones succeeded; unwinding drops the BufWriters,      *)
(* whose flush may or may not reach the files.                             *)
GenFail(i) ==
  /\ ~Exited
  /\ \/ gen[i].pc = "start"
     \/ gen[i].pc = "loop" /\ gen[i].nid < gen[i].end
     \/ gen[i].pc = "edges"
  /\ IF gen[i].pc = "start"
     THEN \E created \in 0 .. 2 :
            /\ chunkNodes' = IF created >= 1
                             THEN [chunkNodes EXCEPT ![i] = NewFile(<<>>)]
                             ELSE chunkNodes
            /\ chunkEdges' = IF created >= 2
                             THEN [chunkEdges EXCEPT ![i] = NewFile(<<>>)]
                             ELSE chunkEdges
            /\ chunkStats' = chunkStats
     ELSE \E flushed \in BOOLEAN :
            /\ chunkNodes' = [chunkNodes EXCEPT ![i] =
                 FileAppend(@, IF flushed THEN gen[i].nodebuf ELSE <<>>)]
            /\ chunkEdges' = [chunkEdges EXCEPT ![i] =
                 FileAppend(@, IF flushed THEN gen[i].edgebuf ELSE <<>>)]
            /\ chunkStats' = [chunkStats EXCEPT ![i] =
                 FileAppend(@, IF flushed THEN gen[i].statsbuf ELSE <<>>)]
  /\ gen' = [gen EXCEPT ![i].pc = "panicked", ![i].nodebuf = <<>>,
                        ![i].edgebuf = <<>>, ![i].statsbuf = <<>>]
  /\ UNCHANGED <<args, sample, pc, mainI, nodesCsv, edgesCsv, mrg, nodeoffsets,
                 edgeoffsets, writes>>

(* Mutant: the result of join() is dropped and the loop goes on. *)
JoinGenIgnorePanic ==
  /\ pc = "join_gen"
  /\ mainI < args.nprocs
  /\ gen[mainI].pc = "panicked"
  /\ mainI' = mainI + 1
  /\ UNCHANGED <<args, sample, pc, nodesCsv, edgesCsv, chunkNodes, chunkEdges,
                 chunkStats, gen, mrg, nodeoffsets, edgeoffsets, writes>>

(* lines 366-368: join() of a panicked thread is an Err, expect() panics   *)
(* the main thread and the process exits                                   *)
JoinGenPanic ==
  /\ pc = "join_gen"
  /\ mainI < args.nprocs
  /\ gen[mainI].pc = "panicked"
  /\ pc' = "aborted"
  /\ UNCHANGED <<args, sample, mainI, nodesCsv, edgesCsv, chunkNodes,
                 chunkEdges, chunkStats, gen, mrg, nodeoffsets, edgeoffsets,
                 writes>>

GenFailNext ==
  \/ Next
  \/ \E i \in Procs : GenFail(i)
  \/ JoinGenPanic

GenFailSpec == Init /\ [][GenFailNext]_vars

(* ------------------- runs with failing chunk reads --------------------- *)
(* lines 313 and 325: BufRead::lines yields Err when a read of the chunk   *)
(* fails, having consumed some bytes of the row; flatten() drops the Err   *)
(* and asks for the next row, which starts where the failed read stopped.  *)
LostBytes(data, pos) == 0 .. (ReadLine(data, pos).next - pos)

ReadErrorNodes(i) ==
  /\ mrg[i].pc = "nodes"
  /\ mrg[i].nread < Len(chunkNodes[i].data)
  /\ mrg[i].read_errors < MaxFaults
  /\ \E c \in LostBytes(chunkNodes[i].data, mrg[i].nread) :
       mrg' = [mrg EXCEPT ![i].nread = @ + c, ![i].read_errors = @ + 1]
  /\ UNCHANGED <<args, sample, pc, mainI, nodesCsv, edgesCsv, chunkNodes,
                 chunkEdges, chunkStats, gen, nodeoffsets, edgeoffsets, writes>>

ReadErrorEdges(i) ==
  /\ mrg[i].pc = "edges"
  /\ mrg[i].eread < Len(chunkEdges[i].data)
  /\ mrg[i].read_errors < MaxFaults
  /\ \E c \in LostBytes(chunkEdges[i].data, mrg[i].eread) :
       mrg' = [mrg EXCEPT ![i].eread = @ + c, ![i].read_errors = @ + 1]
  /\ UNCHANGED <<args, sample, pc, mainI, nodesCsv, edgesCsv, chunkNodes,
                 chunkEdges, chunkStats, gen, nodeoffsets, edgeoffsets, writes>>

ReadFailNext ==
  \/ Next
  \/ \E i \in Procs : ReadErrorNodes(i)
  \/ \E i \in Procs : ReadErrorEdges(i)

ReadFailSpec == Init /\ [][ReadFailNext]_vars

(* --------------------- the sampler on its own -------------------------- *)
(* get_n_edges and get_prop applied to one draw of the uniform source,     *)
(* UniformFloat::new(0.0, 1.0): numerators 0 .. FracDen - 1, taken at both *)
(* ends of the support and around every fiftieth of it.                    *)
UniformDraws ==
  RawDraws("Uniform") \cup
  {k \in 0 .. (FracDen - 1) :
     k % (FracDen \div 50) \in {0, 1, (FracDen \div 50) - 1}}

PropSizes == 0 .. (PropDivisor * (MaxPropBytes + 1))

SamplerArgs ==
  { MakeArgs(0, 1, FALSE,
             [edge_dist |-> "Uniform", node_prop_dist |-> "Uniform",
              edge_prop_dist |-> "None",
              min_prop_size |-> lo, max_prop_size |-> hi]) :
      lo \in PropSizes, hi \in PropSizes }

SamplerInit ==
  /\ args \in {a \in SamplerArgs : a.min_prop_size < a.max_prop_size}
  /\ sample \in {[NoSample EXCEPT !.k = k, !.at = "drawn"] : k \in UniformDraws}
  /\ pc = "sampler"
  /\ mainI = 0
  /\ nodesCsv = NoFile
  /\ edgesCsv = NoFile
  /\ chunkNodes = [i \in Procs |-> NoFile]
  /\ chunkEdges = [i \in Procs |-> NoFile]
  /\ chunkStats = [i \in Procs |-> NoFile]
  /\ gen = [i \in Procs |-> GenIdle]
  /\ mrg = [i \in Procs |-> MrgIdle]
  /\ nodeoffsets = <<>>
  /\ edgeoffsets = <<>>
  /\ writes = {}

(* lines 103-127 *)
ApplyGetNEdges ==
  /\ pc = "sampler"
  /\ sample.at = "drawn"
  /\ sample' = [sample EXCEPT !.at = "counted",
                              !.n_edges = GetNEdges(args.edge_dist, sample.k)]
  /\ UNCHANGED <<args, pc, mainI, nodesCsv, edgesCsv, chunkNodes, chunkEdges,
                 chunkStats, gen, mrg, nodeoffsets, edgeoffsets, writes>>

(* lines 71-101, up to the allocation of the raw buffer *)
ApplyGetProp ==
  /\ pc = "sampler"
  /\ sample.at = "counted"
  /\ sample' = [sample EXCEPT
       !.at = "sized",
       !.prop_length = PropLength(args.node_prop_dist, sample.k,
                                  args.min_prop_size, PropRange),
       !.prop_bytes = PropBytes(args.node_prop_dist, sample.k,
                                args.min_prop_size, PropRange)]
  /\ UNCHANGED <<args, pc, mainI, nodesCsv, edgesCsv, chunkNodes, chunkEdges,
                 chunkStats, gen, mrg, nodeoffsets, edgeoffsets, writes>>

SamplerNext == ApplyGetNEdges \/ ApplyGetProp

SamplerSpec == SamplerInit /\ [][SamplerNext]_vars

(* ------------------------ reading the files back ----------------------- *)
FirstIndex(s, sep) ==
  LET hits == {j \in 1 .. Len(s) : s[j] = sep}
  IN IF hits = {} THEN 0 ELSE CHOOSE j \in hits : \A m \in hits : j <= m

RECURSIVE Split(_, _)
Split(s, sep) ==
  LET k == FirstIndex(s, sep) IN
  IF k = 0 THEN <<s>>
  ELSE <<SubSeq(s, 1, k - 1)>> \o Split(SubSeq(s, k + 1, Len(s)), sep)

(* The rows of a file: the byte runs that a "\n" terminates. *)
Rows(data) == LET f == Split(data, NL) IN SubSeq(f, 1, Len(f) - 1)

Fields(row) == Split(row, "|")

IsNumber(field) ==
  /\ field # <<>>
  /\ \A j \in 1 .. Len(field) : \E d \in 0 .. 9 : Digits[d + 1] = field[j]

DigitValue(c) == CHOOSE d \in 0 .. 9 : Digits[d + 1] = c

RECURSIVE ParseInt(_)
ParseInt(field) ==
  IF Len(field) = 1 THEN DigitValue(field[1])
  ELSE 10 * ParseInt(SubSeq(field, 1, Len(field) - 1)) + DigitValue(field[Len(field)])

(* The id column of a table. *)
RowIds(data) == [j \in 1 .. Len(Rows(data)) |-> Fields(Rows(data)[j])[1]]

(* The decimal ids lo, lo + 1, ..., hi - 1. *)
IdRange(lo, hi) == [j \in 1 .. (hi - lo) |-> to_string(lo + j - 1)]

RECURSIVE ConcatChunks(_, _)
ConcatChunks(files, k) ==
  IF k = 0 THEN <<>> ELSE ConcatChunks(files, k - 1) \o files[k - 1].data

RECURSIVE SumLens(_, _)
SumLens(files, k) ==
  IF k = 0 THEN 0 ELSE SumLens(files, k - 1) + Len(files[k - 1].data)

(* The range the data model gives chunk i. *)
RangeLo(i) == (args.n_nodes \div args.nprocs) * i
RangeHi(i) == Min((args.n_nodes \div args.nprocs) * (i + 1), args.n_nodes)

(* The phases of a run. *)
Phase(at) ==
  CASE at = "create_files" -> "INIT"
    [] at \in {"spawn_gen", "join_gen"} -> "GENERATING"
    [] at \in {"plan_open", "plan_stat"} -> "PLANNING"
    [] at \in {"spawn_merge", "join_merge"} -> "MERGING"
    [] at = "done" -> "DONE"
    [] at = "done_early" -> "DONE-EARLY"
    [] at = "aborted" -> "ABORTED"

RangesComputed == \A i \in Procs : gen[i].pc \notin {"unspawned", "start"}
GenRunning(i) == gen[i].pc \in {"start", "loop", "edges"}
MrgRunning(i) == mrg[i].pc \in {"open", "nodes", "edges", "exit"}
Planned == pc \in {"spawn_merge", "join_merge", "done"}

(* ------------------------------- claims -------------------------------- *)

(* C1: once every generator has computed its id range, the p ranges        *)
(* partition [0, n): the first starts at 0, each ends where the next       *)
(* starts, and the last ends at n.                                         *)
C1_ChunksPartition ==
  RangesComputed =>
    /\ gen[0].start = 0
    /\ \A i \in Procs : i + 1 \in Procs => gen[i].end = gen[i + 1].start
    /\ gen[args.nprocs - 1].end = args.n_nodes

(* C2: at DONE, nodes.csv is its header followed by the node chunk files   *)
(* concatenated in chunk order, byte for byte, and edges.csv likewise.     *)
C2_MergeCorrect ==
  pc = "done" =>
    /\ nodesCsv.data = NodeHeader \o ConcatChunks(chunkNodes, args.nprocs)
    /\ edgesCsv.data = EdgeHeader \o ConcatChunks(chunkEdges, args.nprocs)

C2_Witness ==
  /\ pc = "done"
  /\ args.nprocs = 2
  /\ \A i \in Procs : chunkNodes[i].data # <<>> /\ chunkEdges[i].data # <<>>

OffsetsArePrefixSums(offsets, header, files) ==
  /\ offsets # <<>> => offsets[1] = Len(header)
  /\ \A j \in 1 .. (Len(offsets) - 1) :
       /\ offsets[j + 1] = offsets[j] + Len(files[j - 1].data)
       /\ offsets[j] <= offsets[j + 1]

(* C3: the offset tables are the prefix sums of the chunk lengths starting *)
(* at the header length, so consecutive ranges neither overlap nor leave a *)
(* gap, and after the resize each destination is as long as its header     *)
(* plus all its chunks.                                                    *)
C3_OffsetCorrect ==
  /\ OffsetsArePrefixSums(nodeoffsets, NodeHeader, chunkNodes)
  /\ OffsetsArePrefixSums(edgeoffsets, EdgeHeader, chunkEdges)
  /\ pc = "plan_stat" => Len(nodeoffsets) = mainI + 1 /\ Len(edgeoffsets) = mainI + 1
  /\ Planned =>
       /\ Len(nodeoffsets) = args.nprocs + 1
       /\ Len(edgeoffsets) = args.nprocs + 1
       /\ Len(nodesCsv.data) = Len(NodeHeader) + SumLens(chunkNodes, args.nprocs)
       /\ Len(edgesCsv.data) = Len(EdgeHeader) + SumLens(chunkEdges, args.nprocs)

C3_Witness ==
  /\ pc = "spawn_merge"
  /\ args.nprocs = 2
  /\ Len(chunkNodes[0].data) > 0
  /\ Len(chunkNodes[1].data) > Len(chunkNodes[0].data)

WriteInRange(w) ==
  LET offsets == IF w.file = "nodes" THEN nodeoffsets ELSE edgeoffsets
      header == IF w.file = "nodes" THEN NodeHeader ELSE EdgeHeader
  IN /\ offsets[w.by + 1] <= w.pos
     /\ w.pos < offsets[w.by + 2]
     /\ w.pos >= Len(header)

(* C4: every byte a merger writes to a destination lies in the range the   *)
(* offset table reserves for it, so no offset is written by two mergers,   *)
(* the header is never overwritten and the pre-sized file never grows.     *)
C4_DisjointWrites ==
  /\ \A w \in writes : WriteInRange(w)
  /\ \A w1, w2 \in writes :
       w1.file = w2.file /\ w1.pos = w2.pos => w1.by = w2.by
  /\ Planned =>
       /\ Len(nodesCsv.data) = nodeoffsets[args.nprocs + 1]
       /\ Len(edgesCsv.data) = edgeoffsets[args.nprocs + 1]
       /\ SubSeq(nodesCsv.data, 1, Len(NodeHeader)) = NodeHeader
       /\ SubSeq(edgesCsv.data, 1, Len(EdgeHeader)) = EdgeHeader

C4_Witness ==
  /\ args.nprocs = 2
  /\ MrgRunning(0) /\ MrgRunning(1)
  /\ \A i \in Procs : \E w \in writes : w.by = i

MergerStarted == \E i \in Procs : mrg[i].pc # "unspawned"

C5_PlanComplete ==
  MergerStarted =>
    /\ Planned
    /\ Len(nodeoffsets) = args.nprocs + 1
    /\ Len(edgeoffsets) = args.nprocs + 1
    /\ Len(nodesCsv.data) = nodeoffsets[Len(nodeoffsets)]
    /\ Len(edgesCsv.data) = edgeoffsets[Len(edgeoffsets)]

C5_PlanFrozen ==
  Planned =>
    /\ nodeoffsets' = nodeoffsets
    /\ edgeoffsets' = edgeoffsets
    /\ Len(nodesCsv'.data) = Len(nodesCsv.data)
    /\ Len(edgesCsv'.data) = Len(edgesCsv.data)
    /\ Planned'

(* C5: when the first merger exists the plan is complete (full offset      *)
(* tables, both destinations at their final length), and from then on no   *)
(* step changes the offset tables or a destination's length.               *)
C5_PlanOnceBeforeMerge == [] C5_PlanComplete /\ [][C5_PlanFrozen]_vars

C5_Witness ==
  /\ MergerStarted
  /\ pc = "spawn_merge"
  /\ nodeoffsets[Len(nodeoffsets)] > Len(NodeHeader)
  /\ edgeoffsets[Len(edgeoffsets)] > Len(EdgeHeader)

(* C6: from PLANNING on every generator has been joined with nothing left  *)
(* in its buffers and one full row per id in each chunk file, and at DONE  *)
(* every merger has been joined.                                           *)
C6_JoinBarriers ==
  /\ Phase(pc) \in {"PLANNING", "MERGING", "DONE"} =>
       \A i \in Procs :
         /\ gen[i].pc = "joined"
         /\ gen[i].nodebuf = <<>> /\ gen[i].edgebuf = <<>> /\ gen[i].statsbuf = <<>>
         /\ Len(Rows(chunkNodes[i].data)) = gen[i].end - gen[i].start
         /\ Len(Rows(chunkStats[i].data)) = gen[i].end - gen[i].start
  /\ pc = "done" => \A i \in Procs : mrg[i].pc = "joined"

C6_Witness ==
  /\ pc = "plan_open"
  /\ args.nprocs = 2
  /\ \A i \in Procs : chunkNodes[i].data # <<>> /\ chunkEdges[i].data # <<>>

PhaseSteps ==
  {<<"INIT", "GENERATING">>, <<"PLANNING", "MERGING">>, <<"MERGING", "DONE">>}
  \cup (IF args.generatechunks
        THEN {<<"GENERATING", "DONE-EARLY">>}
        ELSE {<<"GENERATING", "PLANNING">>})

C7_PhaseStep ==
  /\ Phase(pc) \notin {"DONE", "DONE-EARLY"}
  /\ Phase(pc') = Phase(pc) \/ <<Phase(pc), Phase(pc')>> \in PhaseSteps

C7_PhaseState ==
  /\ \A i \in Procs :
       /\ gen[i].pc # "unspawned" =>
            /\ Phase(pc) # "INIT"
            /\ nodesCsv.exists /\ SubSeq(nodesCsv.data, 1, Len(NodeHeader)) = NodeHeader
            /\ edgesCsv.exists /\ SubSeq(edgesCsv.data, 1, Len(EdgeHeader)) = EdgeHeader
       /\ GenRunning(i) => Phase(pc) = "GENERATING"
       /\ MrgRunning(i) => Phase(pc) = "MERGING"
  /\ Phase(pc) = "DONE-EARLY" => args.generatechunks
  /\ Phase(pc) \in {"PLANNING", "MERGING", "DONE"} => ~args.generatechunks

(* C7: the phase only moves along INIT, GENERATING, then DONE-EARLY in     *)
(* incremental mode or PLANNING, MERGING, DONE otherwise; the headers are  *)
(* on disk before a generator exists, generators run only in GENERATING    *)
(* and mergers only in MERGING, and nothing moves after a terminal phase.  *)
C7_PhaseOrder == [] C7_PhaseState /\ [][C7_PhaseStep]_vars

C7_Witness ==
  /\ pc = "done"
  /\ args.nprocs = 2
  /\ args.n_nodes = 2
  /\ \A i \in Procs : chunkEdges[i].data # <<>>

(* C8: at DONE, nodes.csv is the header line followed by one row per id of *)
(* [0, n), in increasing id order.                                         *)
C8_AllNodesMerged ==
  pc = "done" =>
    /\ SubSeq(nodesCsv.data, 1, Len(NodeHeader)) = NodeHeader
    /\ RowIds(SubSeq(nodesCsv.data, Len(NodeHeader) + 1, Len(nodesCsv.data)))
         = IdRange(0, args.n_nodes)

(* C9: in incremental mode the planner and the mergers never run, the      *)
(* destinations stay exactly their header, and at DONE-EARLY all chunk     *)
(* files exist with node chunk i holding exactly the ids of its range.     *)
C9_IncrementalMode ==
  args.generatechunks =>
    /\ Phase(pc) \in {"INIT", "GENERATING", "DONE-EARLY"}
    /\ \A i \in Procs : mrg[i].pc = "unspawned"
    /\ nodeoffsets = <<>> /\ edgeoffsets = <<>> /\ writes = {}
    /\ pc # "create_files" =>
         nodesCsv = NewFile(NodeHeader) /\ edgesCsv = NewFile(EdgeHeader)
    /\ pc = "done_early" =>
         \A i \in Procs :
           /\ chunkNodes[i].exists /\ chunkEdges[i].exists /\ chunkStats[i].exists
           /\ RowIds(chunkNodes[i].data) = IdRange(RangeLo(i), RangeHi(i))

C9_Witness ==
  /\ pc = "done_early"
  /\ args.nprocs = 2
  /\ args.n_nodes = 2
  /\ \A i \in Procs : chunkEdges[i].data # <<>>

EdgeDsts(i) ==
  LET rows == Rows(chunkEdges[i].data \o gen[i].edgebuf)
  IN {ParseInt(Fields(rows[j])[2]) : j \in 1 .. Len(rows)}

NodeIdsUpTo(i) ==
  UNION {{RowIds(chunkNodes[c].data)[j] : j \in 1 .. Len(RowIds(chunkNodes[c].data))} :
           c \in 0 .. i}

(* C10: in incremental mode every edge row of chunk i, written or still    *)
(* buffered, has a destination below the chunk's end, and at DONE-EARLY    *)
(* that destination is the id of a row in a node file of chunks 0..i.      *)
C10_NoForwardReference ==
  args.generatechunks =>
    \A i \in Procs :
      /\ \A d \in EdgeDsts(i) : d < RangeHi(i)
      /\ pc = "done_early" => \A d \in EdgeDsts(i) : to_string(d) \in NodeIdsUpTo(i)

C10_Witness ==
  /\ pc = "done_early"
  /\ args.nprocs = 2
  /\ 0 \in EdgeDsts(1)
  /\ RangeHi(0) - 1 \in EdgeDsts(0)

(* C11: once a generator has panicked the run never plans, merges or     *)
(* completes: the main thread stays in GENERATING or has aborted, no       *)
(* merger exists, the destinations stay exactly their header, and no step  *)
(* deletes a chunk file.                                                   *)
GenPanicked == \E i \in Procs : gen[i].pc = "panicked"

C11_AfterPanicState ==
  GenPanicked =>
    /\ Phase(pc) \in {"GENERATING", "ABORTED"}
    /\ \A i \in Procs : mrg[i].pc = "unspawned"
    /\ nodeoffsets = <<>> /\ edgeoffsets = <<>> /\ writes = {}
    /\ nodesCsv = NewFile(NodeHeader) /\ edgesCsv = NewFile(EdgeHeader)

C11_AfterPanicStep ==
  GenPanicked =>
    /\ GenPanicked'
    /\ \A i \in Procs :
         /\ chunkNodes[i].exists => chunkNodes'[i].exists
         /\ chunkEdges[i].exists => chunkEdges'[i].exists
         /\ chunkStats[i].exists => chunkStats'[i].exists

C11_GeneratorFailureAborts ==
  [] C11_AfterPanicState /\ [][C11_AfterPanicStep]_vars

C11_Witness ==
  /\ pc = "aborted"
  /\ args.nprocs = 2
  /\ ~args.generatechunks
  /\ gen[0].pc = "joined"
  /\ gen[1].pc = "panicked"
  /\ chunkNodes[0].data # <<>>

(* C12: with edge_dist none every sampled edge count is 0, every stats   *)
(* row records out-degree 0, no edge row is written and the merged edge    *)
(* table is the header only; with node_prop_dist none every node row is    *)
(* the bare id, without "|" and without a property.                        *)
StatsDegrees(i) ==
  LET rows == Rows(chunkStats[i].data)
  IN {Split(rows[j], " ")[2] : j \in 1 .. Len(rows)}

HasByte(data, b) == \E j \in 1 .. Len(data) : data[j] = b

C12_NoneIsZero ==
  /\ args.edge_dist = "None" =>
       /\ \A k \in RawDraws("None") : GetNEdges("None", k) = 0
       /\ \A i \in Procs :
            /\ gen[i].n_edges = 0
            /\ gen[i].pc # "edges"
            /\ StatsDegrees(i) \subseteq {<<"0">>}
            /\ chunkEdges[i].data = <<>> /\ gen[i].edgebuf = <<>>
            /\ gen[i].pc \in {"finished", "joined"} =>
                 Len(Rows(chunkStats[i].data)) = gen[i].end - gen[i].start
       /\ pc = "done" => edgesCsv.data = EdgeHeader
  /\ args.node_prop_dist = "None" =>
       /\ \A i \in Procs :
            /\ ~HasByte(chunkNodes[i].data, "|")
            /\ ~HasByte(gen[i].nodebuf, "|")
            /\ LET rows == Rows(chunkNodes[i].data)
               IN \A j \in DOMAIN rows : IsNumber(rows[j])
       /\ pc = "done" =>
            LET rows == Rows(nodesCsv.data)
            IN \A j \in 2 .. Len(rows) : IsNumber(rows[j])

C12_Witness ==
  /\ pc = "done"
  /\ args.edge_dist = "None"
  /\ args.node_prop_dist = "None"
  /\ args.n_nodes = 2
  /\ args.nprocs = 2
  /\ Len(Rows(nodesCsv.data)) = 3
  /\ \A i \in Procs : StatsDegrees(i) = {<<"0">>}

StatsIds(i) ==
  LET rows == Rows(chunkStats[i].data)
  IN [j \in 1 .. Len(rows) |-> Split(rows[j], " ")[1]]

C14_StatsKept ==
  /\ ~HasByte(nodesCsv.data, " ") /\ ~HasByte(edgesCsv.data, " ")
  /\ Phase(pc) \in {"PLANNING", "MERGING", "DONE"} =>
       \A i \in Procs :
         /\ chunkStats[i].exists
         /\ StatsIds(i) = IdRange(gen[i].start, gen[i].end)

C14_StatsFrame ==
  Phase(pc) \in {"PLANNING", "MERGING", "DONE"} => chunkStats' = chunkStats

(* C14: stats files are never merged: no step of PLANNING or MERGING       *)
(* changes or deletes a stats file, no stats row appears in nodes.csv or   *)
(* edges.csv, and through DONE every stats file exists and holds the rows  *)
(* its generator wrote.                                                    *)
C14_StatsNeverMerged == [] C14_StatsKept /\ [][C14_StatsFrame]_vars

C14_Witness ==
  /\ pc = "done"
  /\ args.n_nodes = 2
  /\ args.nprocs = 2
  /\ args.edge_dist = "Uniform"
  /\ \A i \in Procs :
       /\ chunkStats[i].exists
       /\ StatsDegrees(i) = {<<"1">>}
       /\ ~chunkNodes[i].exists /\ ~chunkEdges[i].exists

ChunkChanged(j) ==
  \/ chunkNodes'[j] # chunkNodes[j]
  \/ chunkEdges'[j] # chunkEdges[j]
  \/ chunkStats'[j] # chunkStats[j]

OnlyGenSteps(j) ==
  /\ gen'[j] # gen[j]
  /\ \A k \in Procs \ {j} : gen'[k] = gen[k]
  /\ mrg' = mrg

OnlyMrgSteps(j) ==
  /\ mrg'[j] # mrg[j]
  /\ \A k \in Procs \ {j} : mrg'[k] = mrg[k]
  /\ gen' = gen

C15_ChunkStep ==
  \A j \in Procs :
    /\ ChunkChanged(j) =>
         \/ /\ GenRunning(j) /\ OnlyGenSteps(j)
            /\ \A k \in Procs : mrg[k].pc = "unspawned"
         \/ /\ MrgRunning(j) /\ OnlyMrgSteps(j)
            /\ \A k \in Procs : gen[k].pc = "joined"
            /\ chunkNodes'[j].data = chunkNodes[j].data
            /\ chunkEdges'[j].data = chunkEdges[j].data
            /\ chunkStats'[j] = chunkStats[j]
    /\ (mrg'[j].nread # mrg[j].nread \/ mrg'[j].eread # mrg[j].eread) =>
         /\ OnlyMrgSteps(j)
         /\ \A k \in Procs : gen[k].pc = "joined"

C15_NoOverlap ==
  \A i, j \in Procs : ~(GenRunning(i) /\ MrgRunning(j))

(* C15: the files of chunk j are written only by steps of generator j and  *)
(* read or deleted only by steps of merger j, and no generator is running  *)
(* while any merger is.                                                    *)
C15_SingleWriterSingleReader == [] C15_NoOverlap /\ [][C15_ChunkStep]_vars

C15_Witness ==
  /\ args.nprocs = 2
  /\ mrg[0].pc = "edges" /\ ~chunkNodes[0].exists
  /\ mrg[1].pc = "nodes" /\ mrg[1].nread > 0 /\ chunkNodes[1].exists
  /\ chunkNodes[0].data # <<>>

(* C16: a merger has deleted a chunk file only when every byte it read   *)
(* from that file has left its write buffer for the destination, and at    *)
(* DONE no node or edge chunk file remains.                                *)
C16_DeleteAfterFlush ==
  /\ \A i \in Procs :
       mrg[i].pc # "unspawned" =>
         /\ ~chunkNodes[i].exists => mrg[i].nodebuf = <<>>
         /\ ~chunkEdges[i].exists => mrg[i].edgebuf = <<>>
  /\ pc = "done" =>
       \A i \in Procs : ~chunkNodes[i].exists /\ ~chunkEdges[i].exists

(* The part of C16 that does hold: at DONE the chunk files are gone and    *)
(* nothing is left in a buffer.                                            *)
C16_GoneAtDone ==
  pc = "done" =>
    \A i \in Procs :
      /\ ~chunkNodes[i].exists /\ ~chunkEdges[i].exists
      /\ mrg[i].nodebuf = <<>> /\ mrg[i].edgebuf = <<>>

(* C17: a merger that hit a read failure on a chunk file copies nothing   *)
(* more and deletes nothing more, and the run does not reach DONE.         *)
C17_FailedState ==
  \A i \in Procs :
    mrg[i].read_errors > 0 =>
      /\ pc # "done"
      /\ mrg[i].pc \notin {"exit", "finished", "joined"}
      /\ chunkEdges[i].exists

C17_FailedStep ==
  \A i \in Procs :
    mrg[i].read_errors > 0 =>
      /\ mrg'[i].nread = mrg[i].nread /\ mrg'[i].eread = mrg[i].eread
      /\ chunkNodes'[i] = chunkNodes[i] /\ chunkEdges'[i] = chunkEdges[i]

C17_ReadFailureAborts == [] C17_FailedState /\ [][C17_FailedStep]_vars

EdgeSrcs(i) ==
  LET rows == Rows(chunkEdges[i].data)
  IN [j \in 1 .. Len(rows) |-> ParseInt(Fields(rows[j])[1])]

OutDegree(i, v) == Cardinality({j \in DOMAIN EdgeSrcs(i) : EdgeSrcs(i)[j] = v})

(* C18: a finished generator has written one stats row per id of its      *)
(* range in increasing order, each recording the number of edge rows with  *)
(* that source in the chunk's edge file; the sources of a chunk's edge     *)
(* rows are inside the chunk's range and never decrease.                   *)
C18_StatsMatchEdges ==
  \A i \in Procs :
    LET srcs == EdgeSrcs(i)
        stats == Rows(chunkStats[i].data)
    IN /\ gen[i].pc \notin {"unspawned", "start"} =>
            /\ \A j \in DOMAIN srcs :
                 gen[i].start <= srcs[j] /\ srcs[j] < gen[i].end
            /\ \A j \in 1 .. (Len(srcs) - 1) : srcs[j] <= srcs[j + 1]
       /\ gen[i].pc \in {"finished", "joined"} =>
            /\ [j \in DOMAIN stats |-> Split(stats[j], " ")[1]]
                 = IdRange(gen[i].start, gen[i].end)
            /\ \A j \in DOMAIN stats :
                 LET f == Split(stats[j], " ")
                     v == ParseInt(f[1])
                 IN /\ Len(f) = 2
                    /\ ParseInt(f[2])
                         = Cardinality({k \in DOMAIN srcs : srcs[k] = v})

C18_Witness ==
  /\ args.nprocs = 1
  /\ args.n_nodes = 2
  /\ gen[0].pc = "finished"
  /\ OutDegree(0, 0) = 0
  /\ OutDegree(0, 1) = 1
  /\ Len(Rows(chunkStats[0].data)) = 2

Terminated ==
  /\ pc = (IF args.generatechunks THEN "done_early" ELSE "done")
  /\ \A i \in Procs :
       /\ gen[i].pc = "joined"
       /\ pc = "done" => mrg[i].pc = "joined"

(* C19: with no failing I/O every run, for every n and every worker count  *)
(* from 0 up, eventually reaches DONE-EARLY (incremental mode) or DONE     *)
(* (normal mode) with all generators and all mergers joined.               *)
C19_Terminates == <>Terminated

C19_Witness ==
  /\ Terminated
  /\ args.nprocs = 0
  /\ ~args.generatechunks
  /\ args.n_nodes > 0
  /\ nodesCsv.data = NodeHeader

MergedNodeIds ==
  LET ids == RowIds(nodesCsv.data)
  IN {ids[j] : j \in 2 .. Len(ids)}

(* C20: in normal mode, at DONE every edge row of edges.csv has a source   *)
(* id and a destination id that are ids of rows of nodes.csv.              *)
C20_EdgesReferenceNodes ==
  (pc = "done" /\ ~args.generatechunks) =>
    LET rows == Rows(edgesCsv.data)
    IN \A j \in 2 .. Len(rows) :
         /\ Fields(rows[j])[1] \in MergedNodeIds
         /\ Fields(rows[j])[2] \in MergedNodeIds

====
